---------------------------- MODULE Spec2Model ----------------------------
(***************************************************************************)
(* Model of the authentication controller of podlove_backend               *)
(* (controllers/authController, routers/authRouter).                       *)
(*                                                                         *)
(* The identity store holds two collections, Auth and User.  Every request *)
(* handler of the controller is one action: the handlers are async         *)
(* functions and the requests of Spec, SpecRouter, SpecFaults and SpecOTP   *)
(* are served one after the other; SpecConcurrent interleaves the awaits   *)
(* of two activate requests.  The handler that ran last and its response   *)
(* are kept in `last`.                                                     *)
(***************************************************************************)
EXTENDS Integers, FiniteSets, Sequences, TLC

VARIABLES
    auths,   \* the Auth collection: a set of documents
    users,   \* the User collection: a set of documents
    nextId,  \* the next _id the store assigns
    now,     \* Date.now(), in ticks of MsPerTick milliseconds
    ticks,   \* how many times the clock has advanced
    used,    \* history: per Auth _id and kind, the OTP that was accepted and
             \* has not been issued again since ("" when none)
    path,    \* the route the latest request came in by ("" for a direct call)
    last,    \* the handler that served the latest request, and its response
    story,   \* history: how far the latest requests follow the end-to-end
             \* scenario (0 when they do not)
    superseded, \* history: per Auth _id, the OTP and expiry of each kind that
             \* the latest issuance of that kind overwrote
    procs    \* the activate requests in flight: per request its position,
             \* its body, the document it holds and its response

vars == <<auths, users, nextId, now, ticks, used, path, last, story,
          superseded, procs>>

---------------------------------------------------------------------------
(* Bounds of the model *)

\* _ids the store hands out are 1..MaxIds
MaxIds == 2
\* the clock advances at most MaxTicks times
MaxTicks == 1

Ids == 1..MaxIds

(* Inputs the requests are drawn from *)
Emails == {"a@x.com"}
Passwords == {"pw", "wrong"}
OTPs == {"O1", "O2"}
GoogleIds == {"g1"}

---------------------------------------------------------------------------
(* Time.  Dates are counted in ticks of one minute. *)

MsPerTick == 60 * 1000
\* new Date(Date.now() + 30 * 60 * 1000)
RegisterOTPWindow == (30 * 60 * 1000) \div MsPerTick
\* new Date(Date.now() + 60 * 1000)
ResendOTPWindow == (60 * 1000) \div MsPerTick
RecoveryOTPWindow == (60 * 1000) \div MsPerTick

\* JavaScript's null and undefined for a Date-valued field
Null == -1
Undefined == -2

\* `!d` for a Date-valued field: a Date object is truthy, null/undefined are not
Falsy(d) == d \in {Null, Undefined}

\* `currentTime > d` as JavaScript evaluates it: null converts to 0,
\* undefined to NaN (every comparison with NaN is false)
After(t, d) ==
    IF d = Undefined THEN FALSE
    ELSE IF d = Null THEN t > 0
    ELSE t > d

---------------------------------------------------------------------------
(* Passwords *)

BcryptRounds == 10
\* bcrypt.hash(password, 10): one-way; the model keeps what was hashed only
\* to decide bcrypt.compare
Hash(p) == <<"bcrypt", BcryptRounds, p>>
\* the password field of an Auth created without one
NoPassword == <<>>
\* the mutant of Compare: no password matches a hash
CompareNoMatch(p, h) ==
    IF h = NoPassword THEN "error" ELSE "mismatch"

\* bcrypt.compare(password, hash): "match" | "mismatch" | "error" (no hash)
Compare(p, h) ==
    IF h = NoPassword THEN "error"
    ELSE IF h = Hash(p) THEN "match" ELSE "mismatch"

---------------------------------------------------------------------------
(* Documents and queries *)

NullAuth ==
    [_id |-> 0, email |-> "", password |-> NoPassword, googleId |-> "",
     isVerified |-> FALSE, isBlocked |-> FALSE,
     verificationOTP |-> "", verificationOTPExpiredAt |-> Undefined,
     recoveryOTP |-> "", recoveryOTPExpiredAt |-> Undefined]

NullUser == [_id |-> 0, auth |-> 0]

\* Model.findOne(filter): the first of the matching documents, or null
First(hits, null) ==
    IF hits = {} THEN null
    ELSE CHOOSE d \in hits : \A h \in hits : d._id <= h._id

\* Auth.findOne({ email }) on a given content of the collection
AuthByEmailIn(coll, email) == First({d \in coll : d.email = email}, NullAuth)

AuthByEmail(email) == AuthByEmailIn(auths, email)
AuthById(id) == First({d \in auths : d._id = id}, NullAuth)
AuthByGoogleId(g) == First({d \in auths : d.googleId = g}, NullAuth)
UserByAuth(id) == First({d \in users : d.auth = id}, NullUser)

\* the mutant of Save: the document is inserted, the stored one is kept
SaveAsInsert(coll, doc) == coll \cup {doc}

\* doc.save(): the stored document with this _id is replaced
Save(coll, doc) == {d \in coll : d._id # doc._id} \cup {doc}

---------------------------------------------------------------------------
(* Responses *)

OK == 200
CREATED == 201
BAD_REQUEST == 400
UNAUTHORIZED == 401
FORBIDDEN == 403
NOT_FOUND == 404
CONFLICT == 409
INTERNAL_SERVER_ERROR == 500
\* no response was sent: no request was handled yet, or the handler threw
\* outside any catch (user!.phoneNumber on a null user, line 328)
NO_RESPONSE == 0

\* the response: status, message, the tokens in data, and the notification
\* the handler sent before it responded ("none", "email" or "sms")
Res(status, message, accessToken, refreshToken, sent) ==
    [status |-> status, message |-> message, accessToken |-> accessToken,
     refreshToken |-> refreshToken, sent |-> sent]

\* next(createError(status, message)), or a response without tokens
Plain(status, message) == Res(status, message, FALSE, FALSE, "none")

\* next(error) with an error of the store or of bcrypt
Forwarded == Plain(INTERNAL_SERVER_ERROR, "error")

\* what `last` holds: the handler that ran, the fault injected into the
\* store, the OTP of the request body, and the response
Record(op, fault, otp, res) ==
    [op |-> op, fault |-> fault, otp |-> otp, res |-> res]

Idle == Record("none", "none", "", Plain(NO_RESPONSE, ""))

---------------------------------------------------------------------------
(* The register transaction: mongoose.startSession / startTransaction.     *)
(* Writes made with { session } are staged and reach the collections only  *)
(* on commitTransaction; abortTransaction drops them.                      *)

StartTransaction == [auths |-> {}, users |-> {}]

\* the mutant of CreateAuthInSession: Auth.create without { session }
\* writes straight to the collection
CreateAuthNoSession(db, tx, doc) ==
    [db |-> [db EXCEPT !.auths = @ \cup {doc}], tx |-> tx]

\* Auth.create([doc], { session })
CreateAuthInSession(db, tx, doc) ==
    [db |-> db, tx |-> [tx EXCEPT !.auths = @ \cup {doc}]]

\* User.create([doc], { session })
CreateUserInSession(db, tx, doc) ==
    [db |-> db, tx |-> [tx EXCEPT !.users = @ \cup {doc}]]

\* session.commitTransaction()
CommitTransaction(db, tx) ==
    [auths |-> db.auths \cup tx.auths, users |-> db.users \cup tx.users]

\* session.abortTransaction()
AbortTransaction(db, tx) == db

---------------------------------------------------------------------------
\* process.env as a handler reads it while it serves a request: each JWT
\* secret is configured or not
Configs == [JWT_ACCESS_SECRET : BOOLEAN, JWT_REFRESH_SECRET : BOOLEAN]

NoneUsed == [verificationOTP |-> "", recoveryOTP |-> ""]

NoneSuperseded ==
    [verificationOTP |-> "", verificationOTPExpiredAt |-> Undefined,
     recoveryOTP |-> "", recoveryOTPExpiredAt |-> Undefined]

\* the two activate requests of SpecConcurrent
Procs == {1, 2}

\* a request that has not come in yet
IdleProc ==
    [pc |-> "idle", email |-> "", otp |-> "", auth |-> NullAuth,
     res |-> Plain(NO_RESPONSE, "")]

Init ==
    /\ auths = {}
    /\ users = {}
    /\ nextId = 1
    /\ now = 1
    /\ ticks = 0
    /\ used = [i \in Ids |-> NoneUsed]
    /\ path = ""
    /\ last = Idle
    /\ story = 0
    /\ superseded = [i \in Ids |-> NoneSuperseded]
    /\ procs = [p \in Procs |-> IdleProc]

\* the time that passes between two requests: one tick, or one tick more
\* than a register window
TickSteps == {1, RegisterOTPWindow + 1}

Tick(d) ==
    /\ ticks < MaxTicks
    /\ ticks' = ticks + 1
    /\ now' = now + d
    /\ last' = Idle
    /\ path' = ""
    /\ UNCHANGED <<auths, users, nextId, used, story, superseded, procs>>

---------------------------------------------------------------------------
(* register *)

\* the try block of register: both creates in the session, then the commit
\* and the email; a failed step throws into the catch block, which calls
\* abortTransaction.  After the commit abortTransaction undoes nothing and
\* throws itself, so next(error) is not reached.
RegisterTransaction(db, authDoc, userDoc, fault) ==
    LET s0 == [db |-> db, tx |-> StartTransaction]
        s1 == CreateAuthInSession(s0.db, s0.tx, authDoc)
        s2 == CreateUserInSession(s1.db, s1.tx, userDoc)
    IN  IF fault = "authCreate"
        THEN [ok |-> FALSE, caught |-> TRUE,
              db |-> AbortTransaction(s0.db, s0.tx)]
        ELSE IF fault = "userCreate"
        THEN [ok |-> FALSE, caught |-> TRUE,
              db |-> AbortTransaction(s1.db, s1.tx)]
        ELSE IF fault = "commit"
        THEN [ok |-> FALSE, caught |-> TRUE,
              db |-> AbortTransaction(s2.db, s2.tx)]
        ELSE IF fault = "send"
        THEN [ok |-> FALSE, caught |-> FALSE,
              db |-> CommitTransaction(s2.db, s2.tx)]
        ELSE [ok |-> TRUE, caught |-> FALSE,
              db |-> CommitTransaction(s2.db, s2.tx)]

\* the expiry of a verification OTP issued by register at time t
RegisterExpiry(t) == t + RegisterOTPWindow

\* the store operations of register a fault can be injected into
RegisterFaults == {"none", "find", "save", "authCreate", "userCreate"}

\* the steps of the try block of register that can fail
RegisterBlockFaults == {"authCreate", "userCreate", "commit", "send"}

\* the handler neither responded nor called next: it threw outside any
\* catch, or a promise it awaited bare was rejected
Unanswered == Plain(NO_RESPONSE, "")

\* otp is what generateOTP() returns.  The fields the create call does not
\* set stay undefined.  fault names the call that fails when the handler
\* reaches it; `last` records it when it was reached.
Register(email, password, fault, otp) ==
    LET op == "register"
        hashedPassword == Hash(password)
        verificationOTP == otp
        verificationOTPExpiredAt == RegisterExpiry(now)
        auth == AuthByEmail(email)
        authDoc == [NullAuth EXCEPT
                      !._id = nextId, !.email = email,
                      !.password = hashedPassword,
                      !.verificationOTP = verificationOTP,
                      !.verificationOTPExpiredAt = verificationOTPExpiredAt,
                      !.isVerified = FALSE, !.isBlocked = FALSE]
        userDoc == [_id |-> nextId + 1, auth |-> authDoc._id]
        done == RegisterTransaction([auths |-> auths, users |-> users],
                                    authDoc, userDoc, fault)
        reached == IF fault \in RegisterBlockFaults THEN fault ELSE "none"
    IN
    /\ UNCHANGED <<now, ticks>>
    /\ IF fault = "find"
       THEN /\ last' = Record(op, fault, "", Forwarded)
            /\ UNCHANGED <<auths, users, nextId, used>>
       ELSE IF auth # NullAuth /\ ~auth.isVerified
       THEN IF fault = "save"
            THEN /\ last' = Record(op, fault, "", Forwarded)
                 /\ UNCHANGED <<auths, users, nextId, used>>
            ELSE /\ auths' = Save(auths,
                        [auth EXCEPT
                           !.verificationOTP = verificationOTP,
                           !.verificationOTPExpiredAt = verificationOTPExpiredAt])
                 /\ used' = [used EXCEPT ![auth._id].verificationOTP = ""]
                 /\ last' = IF fault = "send"
                            THEN Record(op, fault, "", Unanswered)
                            ELSE Record(op, "none", "",
                                   Res(CONFLICT,
                                       "Your account already exists. Please verify now.",
                                       FALSE, FALSE, "email"))
                 /\ UNCHANGED <<users, nextId>>
       ELSE IF auth # NullAuth /\ auth.isVerified
       THEN /\ last' = Record(op, "none", "",
                   Plain(CONFLICT,
                         "Your account already exists. Please login now."))
            /\ UNCHANGED <<auths, users, nextId, used>>
       ELSE /\ nextId + 1 <= MaxIds
            /\ auths' = done.db.auths
            /\ users' = done.db.users
            /\ nextId' = IF auths' # auths THEN nextId + 2 ELSE nextId
            /\ last' = IF done.ok
                       THEN Record(op, reached, "",
                              Res(CREATED, "Registration successful",
                                  FALSE, FALSE, "email"))
                       ELSE IF done.caught
                       THEN Record(op, reached, "", Forwarded)
                       ELSE Record(op, reached, "", Unanswered)
            /\ UNCHANGED used

---------------------------------------------------------------------------
(* activate *)

\* the mutant of VerificationExpired: the expiry date is not compared
VerificationNeverExpired(auth, currentTime) ==
    \/ auth.verificationOTP = ""
    \/ Falsy(auth.verificationOTPExpiredAt)

\* line 116: the stored verification OTP is missing or past its expiry
VerificationExpired(auth, currentTime) ==
    \/ auth.verificationOTP = ""
    \/ Falsy(auth.verificationOTPExpiredAt)
    \/ After(currentTime, auth.verificationOTPExpiredAt)

\* the mutant of Activated: the OTP stays stored after it was accepted
ActivatedKeepingOTP(auth) == [auth EXCEPT !.isVerified = TRUE]

\* lines 124-126: what activate saves once the OTP matched
Activated(auth) ==
    [auth EXCEPT !.verificationOTP = "",
                 !.verificationOTPExpiredAt = Null,
                 !.isVerified = TRUE]

\* the mutant of SavedBeforeSecret: the secret is examined before the save,
\* so that nothing is stored when it is missing
SavedAfterSecret(auth, accessSecret) ==
    IF accessSecret THEN Activated(auth) ELSE auth

\* lines 128-134: the save at line 128 comes before the secret is examined
\* at line 131, so the document is stored whether or not the secret is set
SavedBeforeSecret(auth, accessSecret) == Activated(auth)

\* the mutant of WrongVerificationOTP: any OTP passes for the stored one
AnyVerificationOTP(otp, auth) == FALSE

\* line 120: verificationOTP !== auth.verificationOTP
WrongVerificationOTP(otp, auth) == otp # auth.verificationOTP

\* the store calls of activate that can fail: lines 111, 128 and 137
ActivateFaults == {"none", "find", "save", "userFind"}

Activate(email, otp, accessSecret, fault) ==
    LET op == "activate"
        auth == AuthByEmail(email)
        currentTime == now
        user == UserByAuth(auth._id)
    IN
    /\ UNCHANGED <<users, nextId, now, ticks>>
    /\ IF email = "" \/ otp = ""
       THEN /\ last' = Record(op, "none", otp,
                   Plain(BAD_REQUEST, "Email and Verification OTP are required."))
            /\ UNCHANGED <<auths, used>>
       ELSE IF fault = "find"
       THEN /\ last' = Record(op, fault, otp, Forwarded)
            /\ UNCHANGED <<auths, used>>
       ELSE IF auth = NullAuth
       THEN /\ last' = Record(op, "none", otp, Plain(NOT_FOUND, "User not found"))
            /\ UNCHANGED <<auths, used>>
       ELSE IF VerificationExpired(auth, currentTime)
       THEN /\ last' = Record(op, "none", otp,
                   Plain(UNAUTHORIZED, "Verification OTP has expired."))
            /\ UNCHANGED <<auths, used>>
       ELSE IF WrongVerificationOTP(otp, auth)
       THEN /\ last' = Record(op, "none", otp,
                   Plain(UNAUTHORIZED, "Wrong OTP. Please enter the correct one"))
            /\ UNCHANGED <<auths, used>>
       ELSE IF fault = "save"
       THEN /\ last' = Record(op, fault, otp, Forwarded)
            /\ UNCHANGED <<auths, used>>
       ELSE /\ auths' = Save(auths, SavedBeforeSecret(auth, accessSecret))
            /\ used' = [used EXCEPT ![auth._id].verificationOTP = otp]
            /\ last' = IF ~accessSecret
                       THEN Record(op, "none", otp,
                              Plain(INTERNAL_SERVER_ERROR, "Unexpected Server Error"))
                       ELSE IF fault = "userFind"
                       THEN Record(op, fault, otp, Forwarded)
                       ELSE IF user = NullUser
                       THEN Record(op, "none", otp,
                              Plain(NOT_FOUND, "Associated user not found."))
                       ELSE Record(op, "none", otp,
                              Res(OK, "Account successfully verified.",
                                  TRUE, FALSE, "none"))

---------------------------------------------------------------------------
(* login *)

\* the mutant of LoginOutcome: the block check comes before the verify check
LoginOutcomeBlockFirst(auth, isPasswordValid, env) ==
    IF isPasswordValid = "error" THEN Forwarded
    ELSE IF isPasswordValid # "match" THEN Plain(UNAUTHORIZED, "Wrong password")
    ELSE IF auth.isBlocked
    THEN Plain(FORBIDDEN, "Your account had been blocked. Contact Administrator")
    ELSE IF ~auth.isVerified THEN Plain(UNAUTHORIZED, "Verify your email first")
    ELSE IF ~env.JWT_ACCESS_SECRET \/ ~env.JWT_REFRESH_SECRET
    THEN Plain(INTERNAL_SERVER_ERROR, "JWT secret is not defined.")
    ELSE Res(OK, "Login successful", TRUE, TRUE, "none")

\* lines 158-180: the checks of login on the Auth it found, in their order
LoginOutcome(auth, isPasswordValid, env) ==
    IF isPasswordValid = "error" THEN Forwarded
    ELSE IF isPasswordValid # "match" THEN Plain(UNAUTHORIZED, "Wrong password")
    ELSE IF ~auth.isVerified THEN Plain(UNAUTHORIZED, "Verify your email first")
    ELSE IF auth.isBlocked
    THEN Plain(FORBIDDEN, "Your account had been blocked. Contact Administrator")
    ELSE IF ~env.JWT_ACCESS_SECRET \/ ~env.JWT_REFRESH_SECRET
    THEN Plain(INTERNAL_SERVER_ERROR, "JWT secret is not defined.")
    ELSE Res(OK, "Login successful", TRUE, TRUE, "none")

\* the store calls of login that can fail: lines 154 and 174
LoginFaults == {"none", "find", "userFind"}

Login(email, password, env, fault) ==
    LET op == "login"
        auth == AuthByEmail(email)
        isPasswordValid == Compare(password, auth.password)
        outcome == LoginOutcome(auth, isPasswordValid, env)
    IN
    /\ last' = IF fault = "find"
               THEN Record(op, fault, "", Forwarded)
               ELSE IF auth = NullAuth
               THEN Record(op, "none", "",
                      Plain(NOT_FOUND, "No account found with the given email"))
               ELSE IF fault = "userFind" /\ outcome.status = OK
               THEN Record(op, fault, "", Forwarded)
               ELSE Record(op, "none", "", outcome)
    /\ UNCHANGED <<auths, users, nextId, now, ticks, used>>

---------------------------------------------------------------------------
(* signInWithGoogle *)

\* the unique index on Auth.email: a create with an email already stored fails
EmailTaken(email) == \E d \in auths : d.email = email

\* the store calls of signInWithGoogle that can fail: lines 186, 189, 191
\* and 202
GoogleFaults == {"none", "find", "authCreate", "userCreate", "userFind"}

\* the mutant of GoogleTokens: a blocked Auth gets no tokens
GoogleTokensBlockGate(auth, env, fault) ==
    IF auth.isBlocked
    THEN Record("signInWithGoogle", "none", "",
           Plain(FORBIDDEN, "Your account had been blocked. Contact Administrator"))
    ELSE IF ~env.JWT_ACCESS_SECRET \/ ~env.JWT_REFRESH_SECRET
    THEN Record("signInWithGoogle", "none", "",
           Plain(INTERNAL_SERVER_ERROR, "JWT secret is not defined."))
    ELSE IF fault = "userFind"
    THEN Record("signInWithGoogle", fault, "", Forwarded)
    ELSE Record("signInWithGoogle", "none", "",
           Res(OK, "Login successful", TRUE, TRUE, "none"))

\* lines 194-208: the tokens are minted for the Auth whatever its flags, and
\* the response carries whatever User.findOne returned
GoogleTokens(auth, env, fault) ==
    IF ~env.JWT_ACCESS_SECRET \/ ~env.JWT_REFRESH_SECRET
    THEN Record("signInWithGoogle", "none", "",
           Plain(INTERNAL_SERVER_ERROR, "JWT secret is not defined."))
    ELSE IF fault = "userFind"
    THEN Record("signInWithGoogle", fault, "", Forwarded)
    ELSE Record("signInWithGoogle", "none", "",
           Res(OK, "Login successful", TRUE, TRUE, "none"))

\* the mutant of CreateBoth: a failed User create undoes the Auth create
CreateBothOrNeither(db, authDoc, userDoc, fault) ==
    IF fault = "userCreate" THEN db
    ELSE [auths |-> db.auths \cup {authDoc}, users |-> db.users \cup {userDoc}]

\* lines 189-192: Auth.create, then User.create, each written at once; when
\* User.create fails the handler returns and the Auth stays
CreateBoth(db, authDoc, userDoc, fault) ==
    [auths |-> db.auths \cup {authDoc},
     users |-> IF fault = "userCreate" THEN db.users
               ELSE db.users \cup {userDoc}]

SignInWithGoogle(googleId, email, env, fault) ==
    LET op == "signInWithGoogle"
        found == AuthByGoogleId(googleId)
        authDoc == [NullAuth EXCEPT
                      !._id = nextId, !.email = email, !.googleId = googleId]
        userDoc == [_id |-> nextId + 1, auth |-> authDoc._id]
        done == CreateBoth([auths |-> auths, users |-> users],
                           authDoc, userDoc, fault)
    IN
    /\ UNCHANGED <<now, ticks, used>>
    /\ IF fault = "find"
       THEN /\ last' = Record(op, fault, "", Forwarded)
            /\ UNCHANGED <<auths, users, nextId>>
       ELSE IF found # NullAuth
       THEN /\ last' = GoogleTokens(found, env, fault)
            /\ UNCHANGED <<auths, users, nextId>>
       ELSE IF EmailTaken(email) \/ fault = "authCreate"
       THEN /\ last' = Record(op, IF fault = "authCreate" THEN fault ELSE "none",
                              "", Forwarded)
            /\ UNCHANGED <<auths, users, nextId>>
       ELSE /\ nextId + 1 <= MaxIds
            /\ auths' = done.auths
            /\ users' = done.users
            /\ nextId' = nextId + 2
            /\ last' = IF fault = "userCreate"
                       THEN Record(op, fault, "", Forwarded)
                       ELSE GoogleTokens(authDoc, env, fault)

---------------------------------------------------------------------------
(* recovery, recoveryVerify, resetPassword *)

\* the expiry of a recovery OTP issued by recovery at time t
RecoveryExpiry(t) == t + RecoveryOTPWindow

\* the store calls of recovery, recoveryVerify, resetPassword and
\* changePassword that can fail: the find and the save
FindSaveFaults == {"none", "find", "save"}

\* line 221 awaits auth.save() bare: when it is rejected the handler stops
\* there and never calls next
Recovery(email, otp, fault) ==
    LET op == "recovery"
        auth == AuthByEmail(email)
        recoveryOTP == otp
    IN
    /\ UNCHANGED <<users, nextId, now, ticks>>
    /\ IF fault = "find"
       THEN /\ last' = Record(op, fault, "", Forwarded)
            /\ UNCHANGED <<auths, used>>
       ELSE IF auth = NullAuth
       THEN /\ last' = Record(op, "none", "", Plain(NOT_FOUND, "User Not Found"))
            /\ UNCHANGED <<auths, used>>
       ELSE IF fault = "save"
       THEN /\ last' = Record(op, fault, "", Unanswered)
            /\ UNCHANGED <<auths, used>>
       ELSE /\ auths' = Save(auths,
                   [auth EXCEPT !.recoveryOTP = recoveryOTP,
                                !.recoveryOTPExpiredAt = RecoveryExpiry(now)])
            /\ used' = [used EXCEPT ![auth._id].recoveryOTP = ""]
            /\ last' = Record(op, "none", "",
                   Res(OK, "Success", FALSE, FALSE, "email"))

\* the mutant of RecoveryExpired: the window is never checked
RecoveryNeverExpired(auth, currentTime) == FALSE

\* line 241: currentTime > auth.recoveryOTPExpiredAt
RecoveryExpired(auth, currentTime) ==
    After(currentTime, auth.recoveryOTPExpiredAt)

\* the mutant of RecoveryVerified: the accepted recovery OTP also verifies
\* the account
RecoveryVerifiedAndActivated(auth) ==
    [auth EXCEPT !.recoveryOTP = "",
                 !.recoveryOTPExpiredAt = Null,
                 !.isVerified = TRUE]

\* lines 249-250: what recoveryVerify saves once the OTP matched
RecoveryVerified(auth) ==
    [auth EXCEPT !.recoveryOTP = "", !.recoveryOTPExpiredAt = Null]

RecoveryVerify(email, otp, fault) ==
    LET op == "recoveryVerify"
        auth == AuthByEmail(email)
        currentTime == now
    IN
    /\ UNCHANGED <<users, nextId, now, ticks>>
    /\ IF email = "" \/ otp = ""
       THEN /\ last' = Record(op, "none", otp,
                   Plain(BAD_REQUEST, "Email and Recovery OTP are required."))
            /\ UNCHANGED <<auths, used>>
       ELSE IF fault = "find"
       THEN /\ last' = Record(op, fault, otp, Forwarded)
            /\ UNCHANGED <<auths, used>>
       ELSE IF auth = NullAuth
       THEN /\ last' = Record(op, "none", otp, Plain(NOT_FOUND, "User not found"))
            /\ UNCHANGED <<auths, used>>
       ELSE IF RecoveryExpired(auth, currentTime)
       THEN /\ last' = Record(op, "none", otp,
                   Plain(UNAUTHORIZED, "Recovery OTP has expired."))
            /\ UNCHANGED <<auths, used>>
       ELSE IF otp # auth.recoveryOTP
       THEN /\ last' = Record(op, "none", otp,
                   Plain(UNAUTHORIZED, "Wrong OTP.Please enter the correct one."))
            /\ UNCHANGED <<auths, used>>
       ELSE IF fault = "save"
       THEN /\ last' = Record(op, fault, otp, Forwarded)
            /\ UNCHANGED <<auths, used>>
       ELSE /\ auths' = Save(auths, RecoveryVerified(auth))
            /\ used' = [used EXCEPT ![auth._id].recoveryOTP = otp]
            /\ last' = Record(op, "none", otp,
                   Plain(OK, "Email successfully verified."))

\* the mutant of PasswordsDiffer: confirmPassword is not looked at
PasswordsNeverDiffer(password, confirmPassword) == FALSE

\* line 272: password !== confirmPassword
PasswordsDiffer(password, confirmPassword) == password # confirmPassword

\* email is req.user.email, set by the recoveryAuthorize middleware.
\* Line 274 awaits auth.save() bare.
ResetPassword(email, password, confirmPassword, fault) ==
    LET op == "resetPassword"
        auth == AuthByEmail(email)
    IN
    /\ UNCHANGED <<users, nextId, now, ticks, used>>
    /\ IF fault = "find"
       THEN /\ last' = Record(op, fault, "", Forwarded)
            /\ UNCHANGED auths
       ELSE IF auth = NullAuth
       THEN /\ last' = Record(op, "none", "", Plain(NOT_FOUND, "User Not Found"))
            /\ UNCHANGED auths
       ELSE IF PasswordsDiffer(password, confirmPassword)
       THEN /\ last' = Record(op, "none", "",
                   Plain(BAD_REQUEST, "Passwords don't match"))
            /\ UNCHANGED auths
       ELSE IF fault = "save"
       THEN /\ last' = Record(op, fault, "", Unanswered)
            /\ UNCHANGED auths
       ELSE /\ auths' = Save(auths, [auth EXCEPT !.password = Hash(password)])
            /\ last' = Record(op, "none", "",
                   Plain(OK, "Password reset successful"))

---------------------------------------------------------------------------
(* resendOTP *)

\* the Method enum of the resendOTP payload
Methods == {"emailActivation", "phoneActivation", "emailRecovery"}

\* the mutant of ResendExpiry: the window of register is used
ResendExpiryAsRegister(t) == t + RegisterOTPWindow

\* the expiry of an OTP issued by resendOTP at time t
ResendExpiry(t) == t + ResendOTPWindow

\* line 295: an activation method on a verified account
AlreadyVerified(method, auth) ==
    method \in {"emailActivation", "phoneActivation"} /\ auth.isVerified

\* the store calls of resendOTP that can fail: lines 289, 322 and
\* 307 / 325 / 339
ResendFaults == {"none", "find", "userFind", "save"}

ResendOTP(method, email, otp, fault) ==
    LET op == "resendOTP"
        auth == AuthByEmail(email)
        user == UserByAuth(auth._id)
        withVerification ==
            [auth EXCEPT !.verificationOTP = otp,
                         !.verificationOTPExpiredAt = ResendExpiry(now)]
        withRecovery ==
            [auth EXCEPT !.recoveryOTP = otp,
                         !.recoveryOTPExpiredAt = ResendExpiry(now)]
        resent == "OTP resend successful"
    IN
    /\ UNCHANGED <<users, nextId, now, ticks>>
    /\ IF fault = "find"
       THEN /\ last' = Record(op, fault, "", Forwarded)
            /\ UNCHANGED <<auths, used>>
       ELSE IF auth = NullAuth
       THEN /\ last' = Record(op, "none", "", Plain(NOT_FOUND, "Account not found"))
            /\ UNCHANGED <<auths, used>>
       ELSE IF AlreadyVerified(method, auth)
       THEN /\ last' = Record(op, "none", "",
                   Plain(CONFLICT,
                         "Your account is already verified. Please login."))
            /\ UNCHANGED <<auths, used>>
       ELSE IF \/ fault = "save" /\ method \in Methods
               \/ fault = "userFind" /\ method = "phoneActivation"
       THEN /\ last' = Record(op, fault, "", Forwarded)
            /\ UNCHANGED <<auths, used>>
       ELSE IF method = "emailActivation" /\ ~auth.isVerified
       THEN /\ auths' = Save(auths, withVerification)
            /\ used' = [used EXCEPT ![auth._id].verificationOTP = ""]
            /\ last' = Record(op, "none", "",
                   Res(OK, resent, FALSE, FALSE, "email"))
       ELSE IF method = "phoneActivation" /\ ~auth.isVerified
       THEN /\ auths' = Save(auths, withVerification)
            /\ used' = [used EXCEPT ![auth._id].verificationOTP = ""]
            /\ last' = IF user = NullUser
                       THEN Record(op, "none", "", Unanswered)
                       ELSE Record(op, "none", "",
                              Res(OK, resent, FALSE, FALSE, "sms"))
       ELSE IF method = "emailRecovery"
       THEN /\ auths' = Save(auths, withRecovery)
            /\ used' = [used EXCEPT ![auth._id].recoveryOTP = ""]
            /\ last' = Record(op, "none", "",
                   Res(OK, resent, FALSE, FALSE, "email"))
       ELSE \* no branch is taken: the handler returns without responding
            /\ last' = Record(op, "none", "", Unanswered)
            /\ UNCHANGED <<auths, used>>

---------------------------------------------------------------------------
(* changePassword, remove *)

\* the mutant of OldPasswordMatches: the old password is not checked
OldPasswordUnchecked(password, auth) == "match"

\* line 358: bcrypt.compare(password, auth.password)
OldPasswordMatches(password, auth) == Compare(password, auth.password)

\* authId is req.user.authId, set by the authorize middleware.
\* Line 363 awaits auth.save() bare.
ChangePassword(authId, password, newPassword, fault) ==
    LET op == "changePassword"
        auth == AuthById(authId)
        isMatch == OldPasswordMatches(password, auth)
    IN
    /\ UNCHANGED <<users, nextId, now, ticks, used>>
    /\ IF fault = "find"
       THEN /\ last' = Record(op, fault, "", Forwarded)
            /\ UNCHANGED auths
       ELSE IF auth = NullAuth
       THEN /\ last' = Record(op, "none", "", Plain(NOT_FOUND, "User Not Found"))
            /\ UNCHANGED auths
       ELSE IF isMatch = "error"
       THEN /\ last' = Record(op, "none", "", Forwarded)
            /\ UNCHANGED auths
       ELSE IF isMatch # "match"
       THEN /\ last' = Record(op, "none", "", Plain(UNAUTHORIZED, "Wrong Password"))
            /\ UNCHANGED auths
       ELSE IF fault = "save"
       THEN /\ last' = Record(op, fault, "", Unanswered)
            /\ UNCHANGED auths
       ELSE /\ auths' = Save(auths, [auth EXCEPT !.password = Hash(newPassword)])
            /\ last' = Record(op, "none", "",
                   Plain(OK, "Passowrd changed successfully"))

\* the _ids the store has issued: an access token carries one of them
Issued == 1 .. (nextId - 1)

\* req.user as the authorize middleware decodes it for the bearer of a
\* token minted for authId: the Auth _id and the _id of its User
DecodedUser(authId) == [authId |-> authId, userId |-> UserByAuth(authId)._id]

\* the two deletes of remove, either of which can fail
RemoveFaults == {"none", "authDelete", "userDelete"}

\* the mutant of DeleteBoth: a failed delete undoes the other one
DeleteBothOrNeither(db, authId, userId, fault) ==
    IF fault # "none" THEN db
    ELSE [auths |-> {d \in db.auths : d._id # authId},
          users |-> {d \in db.users : d._id # userId}]

\* line 372: Promise.all over the two deletes.  Both are issued before
\* either is awaited; the one that does not fail takes effect.
DeleteBoth(db, authId, userId, fault) ==
    [auths |-> IF fault = "authDelete" THEN db.auths
               ELSE {d \in db.auths : d._id # authId},
     users |-> IF fault = "userDelete" THEN db.users
               ELSE {d \in db.users : d._id # userId}]

Remove(authId, fault) ==
    LET op == "remove"
        user == DecodedUser(authId)
        done == DeleteBoth([auths |-> auths, users |-> users],
                           user.authId, user.userId, fault)
    IN
    /\ auths' = done.auths
    /\ users' = done.users
    /\ last' = IF fault = "none"
               THEN Record(op, "none", "",
                      Plain(OK, "User Removed successfully"))
               ELSE Record(op, fault, "", Forwarded)
    /\ UNCHANGED <<nextId, now, ticks, used>>

---------------------------------------------------------------------------
(* block, unblock (services/userServices, routed in the user router) *)

SetBlocked(op, authId, flag) ==
    LET auth == AuthById(authId)
    IN
    /\ auth # NullAuth
    /\ auth.isBlocked # flag
    /\ auths' = Save(auths, [auth EXCEPT !.isBlocked = flag])
    /\ last' = Record(op, "none", "", Plain(OK, ""))
    /\ UNCHANGED <<users, nextId, now, ticks, used>>

Block(authId) == SetBlocked("block", authId, TRUE)
Unblock(authId) == SetBlocked("unblock", authId, FALSE)

---------------------------------------------------------------------------
(* The controller: every handler, called with any request, the store       *)
(* failing only where register is given a fault                            *)

RegisterAny ==
    \E e \in Emails, p \in Passwords, o \in OTPs, f \in RegisterFaults :
       Register(e, p, f, o)
ActivateAny ==
    \E e \in Emails, o \in OTPs \cup {""}, accessSecret \in BOOLEAN :
       Activate(e, o, accessSecret, "none")
LoginAny ==
    \E e \in Emails, p \in Passwords, c \in Configs : Login(e, p, c, "none")
SignInWithGoogleAny ==
    \E g \in GoogleIds, e \in Emails, c \in Configs :
       SignInWithGoogle(g, e, c, "none")
RecoveryAny == \E e \in Emails, o \in OTPs : Recovery(e, o, "none")
RecoveryVerifyAny ==
    \E e \in Emails, o \in OTPs \cup {""} : RecoveryVerify(e, o, "none")
ResetPasswordAny ==
    \E e \in Emails, p, c \in Passwords : ResetPassword(e, p, c, "none")
ResendOTPAny ==
    \E m \in Methods, e \in Emails, o \in OTPs : ResendOTP(m, e, o, "none")
ChangePasswordAny ==
    \E i \in Issued, p, n \in Passwords : ChangePassword(i, p, n, "none")
RemoveAny == \E i \in Issued : Remove(i, "none")
BlockAny == \E i \in Issued : Block(i)
UnblockAny == \E i \in Issued : Unblock(i)

\* AuthController (and the two services of userServices): the handler of
\* that name serves one request
Handle(handler) ==
    CASE handler = "register" -> RegisterAny
      [] handler = "activate" -> ActivateAny
      [] handler = "login" -> LoginAny
      [] handler = "signInWithGoogle" -> SignInWithGoogleAny
      [] handler = "recovery" -> RecoveryAny
      [] handler = "recoveryVerify" -> RecoveryVerifyAny
      [] handler = "resetPassword" -> ResetPasswordAny
      [] handler = "resendOTP" -> ResendOTPAny
      [] handler = "changePassword" -> ChangePasswordAny
      [] handler = "remove" -> RemoveAny
      [] handler = "block" -> BlockAny
      [] handler = "unblock" -> UnblockAny

\* the end-to-end scenario: register("a@x.com", "pw") answered with O1 on an
\* empty store, activate("a@x.com", "O1"), login with "pw", login with
\* "wrong".  story counts the requests of the scenario that were served one
\* after the other, each with the response that lets the next one follow.
Told ==
    story' =
      IF /\ auths = {} /\ users = {}
         /\ last'.op = "register" /\ last'.res.status = CREATED
         /\ AuthByEmailIn(auths', "a@x.com").password = Hash("pw")
         /\ AuthByEmailIn(auths', "a@x.com").verificationOTP = "O1"
      THEN 1
      ELSE IF /\ story = 1
              /\ last'.op = "activate" /\ last'.otp = "O1"
              /\ last'.res.status = OK
      THEN 2
      ELSE IF story = 2 /\ last'.op = "login" /\ last'.res.status = OK
      THEN 3
      ELSE IF story = 3 /\ last'.op = "login"
                        /\ last'.res.status = UNAUTHORIZED
      THEN 4
      ELSE 0

\* a handler is called directly, not through a route
Direct == path' = "" /\ Told /\ UNCHANGED <<superseded, procs>>

Next ==
    \/ \E d \in TickSteps : Tick(d)
    \/ RegisterAny /\ Direct
    \/ ActivateAny /\ Direct
    \/ LoginAny /\ Direct
    \/ SignInWithGoogleAny /\ Direct
    \/ RecoveryAny /\ Direct
    \/ RecoveryVerifyAny /\ Direct
    \/ ResetPasswordAny /\ Direct
    \/ ResendOTPAny /\ Direct
    \/ ChangePasswordAny /\ Direct
    \/ RemoveAny /\ Direct
    \/ BlockAny /\ Direct
    \/ UnblockAny /\ Direct

Spec == Init /\ [][Next]_vars

---------------------------------------------------------------------------
(* The routers: a request reaches the handler its route names *)

\* authRouter (and the block/unblock routes of the user router)
Route(p) ==
    CASE p = "/register" -> "register"
      [] p = "/activate" -> "activate"
      [] p = "/login" -> "login"
      [] p = "/signin-with-google" -> "signInWithGoogle"
      [] p = "/recovery" -> "recovery"
      [] p = "/recovery-verify" -> "recovery"
      [] p = "/reset-password" -> "resetPassword"
      [] p = "/resend-otp" -> "resendOTP"
      [] p = "/change-password" -> "changePassword"
      [] p = "/delete" -> "remove"
      [] p = "/block/:authId" -> "block"
      [] p = "/unblock/:authId" -> "unblock"

\* the request came in by the route p
Routed(p) == path' = p /\ UNCHANGED <<story, superseded, procs>>

\* a request to a path is served by the handler the router names for it
NextRouter ==
    \/ \E d \in TickSteps : Tick(d)
    \/ Handle(Route("/register")) /\ Routed("/register")
    \/ Handle(Route("/activate")) /\ Routed("/activate")
    \/ Handle(Route("/login")) /\ Routed("/login")
    \/ Handle(Route("/signin-with-google")) /\ Routed("/signin-with-google")
    \/ Handle(Route("/recovery")) /\ Routed("/recovery")
    \/ Handle(Route("/recovery-verify")) /\ Routed("/recovery-verify")
    \/ Handle(Route("/reset-password")) /\ Routed("/reset-password")
    \/ Handle(Route("/resend-otp")) /\ Routed("/resend-otp")
    \/ Handle(Route("/change-password")) /\ Routed("/change-password")
    \/ Handle(Route("/delete")) /\ Routed("/delete")
    \/ Handle(Route("/block/:authId")) /\ Routed("/block/:authId")
    \/ Handle(Route("/unblock/:authId")) /\ Routed("/unblock/:authId")

SpecRouter == Init /\ [][NextRouter]_vars

---------------------------------------------------------------------------
(* The controller on a store whose calls can fail: every handler, called   *)
(* with any request and any one of its store calls failing.  The requests  *)
(* are served at one instant (how a failure is handled does not depend on  *)
(* the clock), so every OTP is inside its window.                          *)

RegisterFaulty ==
    \E e \in Emails, p \in Passwords, o \in OTPs,
       f \in RegisterFaults \cup RegisterBlockFaults :
       Register(e, p, f, o)
ActivateFaulty ==
    \E e \in Emails, o \in OTPs, accessSecret \in BOOLEAN,
       f \in ActivateFaults :
       Activate(e, o, accessSecret, f)
LoginFaulty ==
    \E e \in Emails, p \in Passwords, c \in Configs, f \in LoginFaults :
       Login(e, p, c, f)
SignInWithGoogleFaulty ==
    \E g \in GoogleIds, e \in Emails, c \in Configs, f \in GoogleFaults :
       SignInWithGoogle(g, e, c, f)
RecoveryFaulty ==
    \E e \in Emails, o \in OTPs, f \in FindSaveFaults : Recovery(e, o, f)
RecoveryVerifyFaulty ==
    \E e \in Emails, o \in OTPs, f \in FindSaveFaults : RecoveryVerify(e, o, f)
ResetPasswordFaulty ==
    \E e \in Emails, p, c \in Passwords, f \in FindSaveFaults :
       ResetPassword(e, p, c, f)
ResendOTPFaulty ==
    \E m \in Methods, e \in Emails, o \in OTPs, f \in ResendFaults :
       ResendOTP(m, e, o, f)
ChangePasswordFaulty ==
    \E i \in Issued, p, n \in Passwords, f \in FindSaveFaults :
       ChangePassword(i, p, n, f)
RemoveFaulty == \E i \in Issued, f \in RemoveFaults : Remove(i, f)

\* a handler is called directly; the histories are not kept
Untold == path' = "" /\ UNCHANGED <<story, superseded, procs>>

NextFaults ==
    \/ RegisterFaulty /\ Untold
    \/ ActivateFaulty /\ Untold
    \/ LoginFaulty /\ Untold
    \/ SignInWithGoogleFaulty /\ Untold
    \/ RecoveryFaulty /\ Untold
    \/ RecoveryVerifyFaulty /\ Untold
    \/ ResetPasswordFaulty /\ Untold
    \/ ResendOTPFaulty /\ Untold
    \/ ChangePasswordFaulty /\ Untold
    \/ RemoveFaulty /\ Untold

SpecFaults == Init /\ [][NextFaults]_vars

---------------------------------------------------------------------------
(* The OTP life cycle: the handlers that issue or accept an OTP, with the  *)
(* history of what each issuance overwrote                                 *)

\* the document with this _id after the step
AuthByIdAfter(id) == First({d \in auths' : d._id = id}, NullAuth)

\* what the step overwrote: an OTP of a kind was issued when the stored OTP
\* or expiry of that kind changed to a new OTP
SupersededBy(id) ==
    LET a == AuthById(id)
        b == AuthByIdAfter(id)
        verification ==
            /\ b.verificationOTP # ""
            /\ <<b.verificationOTP, b.verificationOTPExpiredAt>> #
                  <<a.verificationOTP, a.verificationOTPExpiredAt>>
        recovery ==
            /\ b.recoveryOTP # ""
            /\ <<b.recoveryOTP, b.recoveryOTPExpiredAt>> #
                  <<a.recoveryOTP, a.recoveryOTPExpiredAt>>
    IN  IF a = NullAuth \/ b = NullAuth THEN superseded[id]
        ELSE [verificationOTP |->
                 IF verification THEN a.verificationOTP
                 ELSE superseded[id].verificationOTP,
              verificationOTPExpiredAt |->
                 IF verification THEN a.verificationOTPExpiredAt
                 ELSE superseded[id].verificationOTPExpiredAt,
              recoveryOTP |->
                 IF recovery THEN a.recoveryOTP
                 ELSE superseded[id].recoveryOTP,
              recoveryOTPExpiredAt |->
                 IF recovery THEN a.recoveryOTPExpiredAt
                 ELSE superseded[id].recoveryOTPExpiredAt]

\* a handler is called directly and what it overwrote is remembered
Superseding ==
    /\ path' = ""
    /\ superseded' = [i \in Ids |-> SupersededBy(i)]
    /\ UNCHANGED <<story, procs>>

\* register on a store whose calls succeed
RegisterIssuing ==
    \E e \in Emails, p \in Passwords, o \in OTPs : Register(e, p, "none", o)

\* the requests follow one another within a tick, so that an OTP is
\* overwritten while its window is open
NextOTP ==
    \/ Tick(1)
    \/ RegisterIssuing /\ Superseding
    \/ ActivateAny /\ Superseding
    \/ ResendOTPAny /\ Superseding
    \/ RecoveryAny /\ Superseding
    \/ RecoveryVerifyAny /\ Superseding

SpecOTP == Init /\ [][NextOTP]_vars

---------------------------------------------------------------------------
(* Two activate requests in flight.  activate is an async function: it     *)
(* runs up to an await, and the event loop may run another request before  *)
(* the awaited store call has answered.  Its awaits are the findOne of     *)
(* line 111, the save of line 128 and the findOne of line 137.             *)

\* line 104-109: the request comes in with its body
Receive(p, email, otp) ==
    /\ procs[p].pc = "idle"
    /\ procs' = [procs EXCEPT ![p] = [@ EXCEPT !.pc = "find",
                                               !.email = email,
                                               !.otp = otp]]
    /\ UNCHANGED <<auths, users, nextId, now, ticks, used, last>>

\* line 111: the store answers Auth.findOne({ email })
Find(p) ==
    LET auth == AuthByEmail(procs[p].email)
    IN
    /\ procs[p].pc = "find"
    /\ procs' = [procs EXCEPT ![p] =
          IF auth = NullAuth
          THEN [@ EXCEPT !.pc = "done",
                         !.res = Plain(NOT_FOUND, "User not found")]
          ELSE [@ EXCEPT !.pc = "check", !.auth = auth]]
    /\ UNCHANGED <<auths, users, nextId, now, ticks, used, last>>

\* lines 113-128: the checks on the document the request holds, the three
\* assignments, and the call of save
Check(p) ==
    LET auth == procs[p].auth
        currentTime == now
    IN
    /\ procs[p].pc = "check"
    /\ procs' = [procs EXCEPT ![p] =
          IF VerificationExpired(auth, currentTime)
          THEN [@ EXCEPT !.pc = "done",
                         !.res = Plain(UNAUTHORIZED,
                                       "Verification OTP has expired.")]
          ELSE IF WrongVerificationOTP(procs[p].otp, auth)
          THEN [@ EXCEPT !.pc = "done",
                         !.res = Plain(UNAUTHORIZED,
                                       "Wrong OTP. Please enter the correct one")]
          ELSE [@ EXCEPT !.pc = "save", !.auth = Activated(auth)]]
    /\ UNCHANGED <<auths, users, nextId, now, ticks, used, last>>

\* line 128: the store applies auth.save(), which writes the modified paths
\* of the document the request holds to the stored document of that _id
SaveStep(p) ==
    LET auth == procs[p].auth
        stored == AuthById(auth._id)
    IN
    /\ procs[p].pc = "save"
    /\ auths' = Save(auths,
          [stored EXCEPT
             !.verificationOTP = auth.verificationOTP,
             !.verificationOTPExpiredAt = auth.verificationOTPExpiredAt,
             !.isVerified = auth.isVerified])
    /\ procs' = [procs EXCEPT ![p] = [@ EXCEPT !.pc = "respond"]]
    /\ UNCHANGED <<users, nextId, now, ticks, used, last>>

\* lines 131-147: the secret, the token, the User, the response
Respond(p, accessSecret) ==
    LET user == UserByAuth(procs[p].auth._id)
    IN
    /\ procs[p].pc = "respond"
    /\ procs' = [procs EXCEPT ![p] =
          [@ EXCEPT !.pc = "done",
                    !.res = IF ~accessSecret
                            THEN Plain(INTERNAL_SERVER_ERROR,
                                       "Unexpected Server Error")
                            ELSE IF user = NullUser
                            THEN Plain(NOT_FOUND, "Associated user not found.")
                            ELSE Res(OK, "Account successfully verified.",
                                     TRUE, FALSE, "none")]]
    /\ UNCHANGED <<auths, users, nextId, now, ticks, used, last>>

\* a step of a request in flight
InFlight == UNCHANGED <<path, story, superseded>>

\* a handler is called directly while the two requests are in flight
Meanwhile == path' = "" /\ UNCHANGED <<story, superseded, procs>>

NextConcurrent ==
    \/ Tick(1)
    \/ RegisterIssuing /\ Meanwhile
    \/ \E p \in Procs, e \in Emails, o \in OTPs : Receive(p, e, o) /\ InFlight
    \/ \E p \in Procs : Find(p) /\ InFlight
    \/ \E p \in Procs : Check(p) /\ InFlight
    \/ \E p \in Procs : SaveStep(p) /\ InFlight
    \/ \E p \in Procs, accessSecret \in BOOLEAN :
          Respond(p, accessSecret) /\ InFlight

SpecConcurrent == Init /\ [][NextConcurrent]_vars

---------------------------------------------------------------------------
(* Properties.  A property about a handler is stated over the steps that   *)
(* handler can take: for every request, every step the handler takes from a *)
(* reachable state satisfies the stated relation between the state before   *)
(* and the state after.                                                     *)

\* a date of the model, in milliseconds
Ms(t) == t * MsPerTick

\* the verification / recovery OTP stored in auth can still be used at time t
VerificationLive(auth, t) ==
    /\ auth.verificationOTP # ""
    /\ ~Falsy(auth.verificationOTPExpiredAt)
    /\ t <= auth.verificationOTPExpiredAt
RecoveryLive(auth, t) ==
    /\ auth.recoveryOTP # ""
    /\ ~Falsy(auth.recoveryOTPExpiredAt)
    /\ t <= auth.recoveryOTPExpiredAt

\* C1: a register for an email without Auth is atomic over the pair: after
\* the request, an Auth it created exists exactly if its paired User does;
\* with a fault at Auth-create or at User-create there is no Auth for the
\* email and no new User; without a fault exactly one pair was created.
C1_RegisterAtomic ==
    [][\A e \in Emails, p \in Passwords, o \in OTPs, f \in RegisterFaults :
         (/\ last'.op = "register"
          /\ last'.fault = f
          /\ AuthByEmail(e) = NullAuth
          /\ Register(e, p, f, o)) =>
            LET newAuths == auths' \ auths
                newUsers == users' \ users
            IN  /\ auths \subseteq auths'
                /\ users \subseteq users'
                /\ \A a \in newAuths : \E u \in users' : u.auth = a._id
                /\ \A u \in newUsers : \E a \in newAuths : a._id = u.auth
                /\ f \in {"authCreate", "userCreate"} =>
                      /\ AuthByEmailIn(auths', e) = NullAuth
                      /\ users' = users
                      /\ last'.res.status = INTERNAL_SERVER_ERROR
                /\ f \notin {"find", "authCreate", "userCreate"} =>
                      /\ Cardinality(newAuths) = 1
                      /\ Cardinality(newUsers) = 1
                      /\ \A a \in newAuths : a.email = e /\ ~a.isVerified
                      /\ last'.res.status = CREATED
      ]_vars

\* a register whose User-create failed after its Auth-create left no Auth
C1_Witness ==
    /\ last.op = "register"
    /\ last.fault = "userCreate"
    /\ last.res.status = INTERNAL_SERVER_ERROR
    /\ auths = {}
    /\ users = {}

\* C2: activate with the stored, unexpired verification OTP of an unverified
\* account verifies it and clears the OTP and its expiry; an activate that
\* carries an OTP accepted before (none issued since) fails Unauthorized and
\* changes nothing.
C2_ActivateOnce ==
    [][\A e \in Emails, o \in OTPs, s \in BOOLEAN :
         (last'.op = "activate" /\ last'.otp = o /\ Activate(e, o, s, "none")) =>
            LET auth == AuthByEmail(e)
                post == AuthByEmailIn(auths', e)
            IN  /\ (/\ auth # NullAuth
                    /\ ~auth.isVerified
                    /\ VerificationLive(auth, now)
                    /\ o = auth.verificationOTP) =>
                      /\ post = [auth EXCEPT !.isVerified = TRUE,
                                             !.verificationOTP = "",
                                             !.verificationOTPExpiredAt = Null]
                      /\ Cardinality(auths') = Cardinality(auths)
                /\ (auth # NullAuth /\ o = used[auth._id].verificationOTP) =>
                      /\ last'.res.status = UNAUTHORIZED
                      /\ ~last'.res.accessToken
                      /\ auths' = auths
                      /\ users' = users
      ]_vars

\* the OTP that verified the account was sent again and refused
C2_Witness ==
    /\ last.op = "activate"
    /\ last.res.status = UNAUTHORIZED
    /\ last.otp # ""
    /\ \E a \in auths :
          a.isVerified /\ used[a._id].verificationOTP = last.otp

C4_ActivateExpiry ==
    [][/\ \A e \in Emails, o \in OTPs, s \in BOOLEAN :
            (/\ last'.op = "activate"
             /\ last'.otp = o
             /\ AuthByEmail(e) # NullAuth
             /\ ~Falsy(AuthByEmail(e).verificationOTPExpiredAt)
             /\ now > AuthByEmail(e).verificationOTPExpiredAt
             /\ Activate(e, o, s, "none")) =>
               /\ last'.res.status = UNAUTHORIZED
               /\ auths' = auths
       /\ \A e \in Emails, p \in Passwords, o \in OTPs, f \in RegisterFaults :
            (/\ last'.op = "register"
             /\ last'.fault = f
             /\ last'.res.sent = "email"
             /\ Register(e, p, f, o)) =>
               LET post == AuthByEmailIn(auths', e)
               IN  /\ post.verificationOTP = o
                   /\ Ms(post.verificationOTPExpiredAt) = Ms(now) + 30 * 60 * 1000
       /\ \A m \in {"emailActivation", "phoneActivation"}, e \in Emails,
             o \in OTPs :
            (last'.op = "resendOTP" /\ auths' # auths /\ ResendOTP(m, e, o, "none")) =>
               LET post == AuthByEmailIn(auths', e)
               IN  /\ post.verificationOTP = o
                   /\ Ms(post.verificationOTPExpiredAt) = Ms(now) + 60 * 1000
      ]_vars

\* the stored OTP was submitted after its expiry and refused, and is still
\* stored on the unverified account
C4_Witness ==
    /\ last.op = "activate"
    /\ last.res.status = UNAUTHORIZED
    /\ \E a \in auths :
          /\ a.verificationOTP = last.otp
          /\ last.otp # ""
          /\ ~Falsy(a.verificationOTPExpiredAt)
          /\ now > a.verificationOTPExpiredAt
          /\ ~a.isVerified

\* C5: register for an email that has an Auth creates no Auth and no User;
\* a verified Auth is left unchanged, with Conflict once the Auth was found;
\* an unverified one gets a new verification OTP and the expiry now + 30
\* minutes (unless the find or the save fails) and nothing else changes, and
\* the OTP is sent.
C5_RegisterExisting ==
    [][\A e \in Emails, p \in Passwords, o \in OTPs, f \in RegisterFaults :
         (/\ last'.op = "register"
          /\ last'.fault = f
          /\ AuthByEmail(e) # NullAuth
          /\ Register(e, p, f, o)) =>
            LET auth == AuthByEmail(e)
                post == AuthByEmailIn(auths', e)
            IN  /\ users' = users
                /\ Cardinality(auths') = Cardinality(auths)
                /\ auths' \ {post} = auths \ {auth}
                /\ post = [auth EXCEPT
                      !.verificationOTP = post.verificationOTP,
                      !.verificationOTPExpiredAt = post.verificationOTPExpiredAt]
                /\ auth.isVerified =>
                      /\ auths' = auths
                      /\ last'.res.sent = "none"
                      /\ f # "find" => last'.res.status = CONFLICT
                /\ (~auth.isVerified /\ f \notin {"find", "save"}) =>
                      /\ post.verificationOTP = o
                      /\ Ms(post.verificationOTPExpiredAt) = Ms(now) + 30 * 60 * 1000
                      /\ last'.res.sent = "email"
      ]_vars

\* a register retry on an unverified account re-issued the OTP
C5_Witness ==
    /\ last.op = "register"
    /\ last.res.status = CONFLICT
    /\ last.res.sent = "email"
    /\ Cardinality(auths) = 1
    /\ \E a \in auths :
          /\ ~a.isVerified
          /\ a.verificationOTP # ""
          /\ Ms(a.verificationOTPExpiredAt) = Ms(now) + 30 * 60 * 1000

\* C6: changePassword on an Auth whose stored hash the old password does
\* not match is Unauthorized and changes nothing; the store changes only when
\* the old password matches the stored hash.
C6_ChangePasswordWrongOld ==
    [][\A i \in Ids, p \in Passwords, n \in Passwords :
         (last'.op = "changePassword" /\ ChangePassword(i, p, n, "none")) =>
            LET auth == AuthById(i)
            IN  /\ (/\ auth # NullAuth
                    /\ auth.password # NoPassword
                    /\ auth.password # Hash(p)) =>
                      /\ last'.res.status = UNAUTHORIZED
                      /\ auths' = auths
                /\ auths' # auths =>
                      /\ auth # NullAuth
                      /\ auth.password = Hash(p)
                      /\ auths' \ auths = {[auth EXCEPT !.password = Hash(n)]}
                /\ users' = users
      ]_vars

\* a changePassword with a wrong old password was refused
C6_Witness ==
    /\ last.op = "changePassword"
    /\ last.res.status = UNAUTHORIZED
    /\ last.res.message = "Wrong Password"
    /\ \E a \in auths : a.password \in {Hash(p) : p \in Passwords}

\* C7: resetPassword for an existing Auth with password # confirmPassword is
\* BadRequest and changes nothing; the store changes only when the two are
\* equal.
C7_ResetPasswordMismatch ==
    [][\A e \in Emails, p \in Passwords, c \in Passwords :
         (last'.op = "resetPassword" /\ ResetPassword(e, p, c, "none")) =>
            LET auth == AuthByEmail(e)
            IN  /\ (auth # NullAuth /\ p # c) =>
                      /\ last'.res.status = BAD_REQUEST
                      /\ auths' = auths
                /\ auths' # auths =>
                      /\ p = c
                      /\ auths' \ auths = {[auth EXCEPT !.password = Hash(p)]}
                /\ (auth # NullAuth /\ p = c) =>
                      AuthByEmailIn(auths', e).password = Hash(p)
                /\ users' = users
      ]_vars

\* a resetPassword with two different passwords was refused on an account
C7_Witness ==
    /\ last.op = "resetPassword"
    /\ last.res.status = BAD_REQUEST
    /\ last.res.message = "Passwords don't match"
    /\ auths # {}

\* C8: recoveryVerify on an existing account: with a recovery OTP that is
\* expired, never issued or consumed, or with another value than the stored
\* one, it is Unauthorized and changes nothing; with the stored OTP inside
\* its window it clears the OTP and its expiry and nothing else, and returns
\* no token; with an OTP accepted before (none issued since) it is
\* Unauthorized.
C8_RecoveryVerify ==
    [][\A e \in Emails, o \in OTPs :
         (/\ last'.op = "recoveryVerify"
          /\ last'.otp = o
          /\ AuthByEmail(e) # NullAuth
          /\ RecoveryVerify(e, o, "none")) =>
            LET auth == AuthByEmail(e)
                post == AuthByEmailIn(auths', e)
                match == RecoveryLive(auth, now) /\ o = auth.recoveryOTP
            IN  /\ ~match =>
                      /\ last'.res.status = UNAUTHORIZED
                      /\ auths' = auths
                /\ match =>
                      /\ last'.res.status = OK
                      /\ post = [auth EXCEPT !.recoveryOTP = "",
                                             !.recoveryOTPExpiredAt = Null]
                      /\ auths' \ {post} = auths \ {auth}
                /\ o = used[auth._id].recoveryOTP =>
                      last'.res.status = UNAUTHORIZED
                /\ ~last'.res.accessToken
                /\ ~last'.res.refreshToken
                /\ users' = users
      ]_vars

\* the recovery OTP that was accepted was sent again and refused
C8_Witness ==
    /\ last.op = "recoveryVerify"
    /\ last.res.status = UNAUTHORIZED
    /\ last.otp # ""
    /\ \E a \in auths :
          a.recoveryOTP = "" /\ used[a._id].recoveryOTP = last.otp

\* C9: a request to /recovery-verify issues no recovery OTP and sends no
\* notification: the stored recovery OTP of every Auth stays as it is or is
\* cleared, and is cleared when the response is OK.
C9_RecoveryVerifyRoute ==
    [][path' = "/recovery-verify" =>
         /\ last'.res.sent = "none"
         /\ \A e \in Emails :
               LET auth == AuthByEmail(e)
                   post == AuthByEmailIn(auths', e)
               IN  /\ post.recoveryOTP \in {auth.recoveryOTP, ""}
                   /\ last'.res.status = OK => post.recoveryOTP = ""
      ]_vars

\* C10: resendOTP with an activation method on a verified account answers
\* with the conflict response, changes nothing and sends nothing; on an
\* unverified account it stores the new verification OTP with the expiry
\* now + 60 seconds, and with emailRecovery the new recovery OTP with the
\* expiry now + 60 seconds; nothing else of the Auth changes.
C10_ResendOTP ==
    [][\A m \in Methods, e \in Emails, o \in OTPs :
         (/\ last'.op = "resendOTP"
          /\ AuthByEmail(e) # NullAuth
          /\ ResendOTP(m, e, o, "none")) =>
            LET auth == AuthByEmail(e)
                post == AuthByEmailIn(auths', e)
                activation == m \in {"emailActivation", "phoneActivation"}
                expiry == (Ms(now) + 60 * 1000) \div MsPerTick
            IN  /\ (activation /\ auth.isVerified) =>
                      /\ last'.res.status = CONFLICT
                      /\ last'.res.sent = "none"
                      /\ auths' = auths
                /\ (activation /\ ~auth.isVerified) =>
                      post = [auth EXCEPT !.verificationOTP = o,
                                          !.verificationOTPExpiredAt = expiry]
                /\ m = "emailRecovery" =>
                      post = [auth EXCEPT !.recoveryOTP = o,
                                          !.recoveryOTPExpiredAt = expiry]
                /\ auths' \ {post} = auths \ {auth}
                /\ users' = users
      ]_vars

\* a resendOTP for activation on a verified account got the conflict response
C10_Witness ==
    /\ last.op = "resendOTP"
    /\ last.res.status = CONFLICT
    /\ last.res.sent = "none"
    /\ \E a \in auths : a.isVerified /\ a.verificationOTP = ""

\* C11: signInWithGoogle for a googleId that has an Auth changes nothing in
\* the store and, with both secrets configured, answers OK with an access
\* and a refresh token whatever isVerified and isBlocked are; login with the
\* right password on such an Auth that is verified and blocked is Forbidden.
C11_GoogleNoGate ==
    [][/\ \A g \in GoogleIds, e \in Emails, c \in Configs :
            (/\ last'.op = "signInWithGoogle"
             /\ \E a \in auths : a.googleId = g
             /\ SignInWithGoogle(g, e, c, "none")) =>
               /\ auths' = auths
               /\ users' = users
               /\ (c.JWT_ACCESS_SECRET /\ c.JWT_REFRESH_SECRET) =>
                     /\ last'.res.status = OK
                     /\ last'.res.accessToken
                     /\ last'.res.refreshToken
       /\ \A e \in Emails, p \in Passwords, c \in Configs :
            (/\ last'.op = "login"
             /\ \E a \in auths :
                   /\ a.email = e /\ a.googleId # ""
                   /\ a.isVerified /\ a.isBlocked /\ a.password = Hash(p)
             /\ Login(e, p, c, "none")) =>
               /\ last'.res.status = FORBIDDEN
               /\ ~last'.res.accessToken
      ]_vars

\* a verified, blocked account that has a password got tokens from
\* signInWithGoogle
C11_Witness ==
    /\ last.op = "signInWithGoogle"
    /\ last.res.status = OK
    /\ last.res.accessToken /\ last.res.refreshToken
    /\ \E a \in auths :
          /\ a.googleId # ""
          /\ a.isVerified /\ a.isBlocked
          /\ a.password # NoPassword

\* C12: a request of the controller in which a call to the identity store
\* (a find, create, save or delete) failed has an error response.
C12_StoreFailureForwarded ==
    last.fault \in {"find", "save", "authCreate", "userCreate", "userFind",
                    "authDelete", "userDelete"} =>
       last.res.status >= BAD_REQUEST

\* C13: the end-to-end scenario.  On an empty store register("a@x.com",
\* "pw") that draws O1 answers Created and stores O1; the activate(
\* "a@x.com", "O1") that follows inside the window answers OK with an access
\* token and stores isVerified; the login with "pw" that follows answers OK
\* with both tokens; the login with "wrong" that follows answers
\* Unauthorized and leaves the account verified with the hash of "pw".
\* (Secrets configured, store calls succeeding.)
C13_EndToEnd ==
    [][/\ (/\ auths = {} /\ users = {}
           /\ last'.op = "register"
           /\ Register("a@x.com", "pw", "none", "O1")) =>
              /\ last'.res.status = CREATED
              /\ last'.res.sent = "email"
              /\ \E a \in auths' :
                    /\ a.email = "a@x.com" /\ a.verificationOTP = "O1"
                    /\ ~a.isVerified
              /\ story' = 1
       /\ (/\ story = 1
           /\ last'.op = "activate"
           /\ \A a \in auths : now <= a.verificationOTPExpiredAt
           /\ Activate("a@x.com", "O1", TRUE, "none")) =>
              /\ last'.res.status = OK
              /\ last'.res.accessToken
              /\ \A a \in auths' : a.isVerified
              /\ story' = 2
       /\ (/\ story = 2
           /\ last'.op = "login"
           /\ Login("a@x.com", "pw",
                    [JWT_ACCESS_SECRET |-> TRUE, JWT_REFRESH_SECRET |-> TRUE],
                    "none")) =>
              /\ last'.res.status = OK
              /\ last'.res.accessToken /\ last'.res.refreshToken
              /\ story' = 3
       /\ \A c \in Configs :
            (/\ story = 3
             /\ last'.op = "login"
             /\ Login("a@x.com", "wrong", c, "none")) =>
               /\ last'.res.status = UNAUTHORIZED
               /\ ~last'.res.accessToken
               /\ auths' = auths
               /\ \A a \in auths' : a.isVerified /\ a.password = Hash("pw")
               /\ story' = 4
      ]_vars

\* the four requests of the scenario were served in a row and the last one,
\* the login with the wrong password, was refused
C13_Witness ==
    /\ story = 4
    /\ last.op = "login"
    /\ last.res.status = UNAUTHORIZED
    /\ \E a \in auths : a.isVerified /\ a.password = Hash("pw")

\* C14: activate answers OK only for the OTP that is stored, and an OTP
\* that an issuance overwrote with another value is refused Unauthorized
\* and changes nothing, also inside its own window; the same for
\* recoveryVerify and the recovery OTP.
C14_OneLiveOTP ==
    [][/\ \A e \in Emails, o \in OTPs, s \in BOOLEAN :
            (/\ last'.op = "activate"
             /\ last'.otp = o
             /\ AuthByEmail(e) # NullAuth
             /\ Activate(e, o, s, "none")) =>
               LET auth == AuthByEmail(e)
               IN  /\ last'.res.status = OK => o = auth.verificationOTP
                   /\ auths' # auths => o = auth.verificationOTP
                   /\ (/\ o = superseded[auth._id].verificationOTP
                        /\ o # auth.verificationOTP) =>
                          /\ last'.res.status = UNAUTHORIZED
                          /\ auths' = auths
       /\ \A e \in Emails, o \in OTPs :
            (/\ last'.op = "recoveryVerify"
             /\ last'.otp = o
             /\ AuthByEmail(e) # NullAuth
             /\ RecoveryVerify(e, o, "none")) =>
               LET auth == AuthByEmail(e)
               IN  /\ last'.res.status = OK => o = auth.recoveryOTP
                   /\ auths' # auths => o = auth.recoveryOTP
                   /\ (/\ o = superseded[auth._id].recoveryOTP
                        /\ o # auth.recoveryOTP) =>
                          /\ last'.res.status = UNAUTHORIZED
                          /\ auths' = auths
      ]_vars

\* the verification OTP that a later issuance overwrote was submitted while
\* its own window and the window of the new OTP were open, and was refused
C14_Witness ==
    /\ last.op = "activate"
    /\ last.res.status = UNAUTHORIZED
    /\ \E a \in auths :
          /\ ~a.isVerified
          /\ last.otp = superseded[a._id].verificationOTP
          /\ a.verificationOTP \notin {"", last.otp}
          /\ now <= superseded[a._id].verificationOTPExpiredAt
          /\ now <= a.verificationOTPExpiredAt

\* C15: a register for an email without Auth in which a step of the try
\* block fails (the Auth create, the User create, the commit, or the email
\* after the commit) leaves the Auth and User collections as they were.
C15_RegisterFailureLeavesNothing ==
    [][\A e \in Emails, p \in Passwords, o \in OTPs,
          f \in {"authCreate", "userCreate", "commit", "send"} :
         (/\ last'.op = "register"
          /\ last'.fault = f
          /\ AuthByEmail(e) = NullAuth
          /\ Register(e, p, f, o)) =>
            /\ auths' = auths
            /\ users' = users
      ]_vars

\* C16: remove deletes the Auth and its User independently.  When both
\* deletes succeed neither record is left; when the Auth delete fails the
\* User is deleted all the same and the Auth stays; when the User delete
\* fails the Auth is deleted all the same and the User stays; a failed
\* delete is answered with an error.
C16_RemoveIndependent ==
    [][\A i \in Ids, f \in {"none", "authDelete", "userDelete"} :
         (/\ last'.op = "remove"
          /\ last'.fault = f
          /\ Remove(i, f)) =>
            LET theAuth == {a \in auths : a._id = i}
                theUser == {u \in users : u.auth = i}
            IN  /\ f = "none" =>
                      /\ auths' = auths \ theAuth
                      /\ users' = users \ theUser
                      /\ last'.res.status = OK
                /\ f = "authDelete" =>
                      /\ auths' = auths
                      /\ users' = users \ theUser
                      /\ last'.res.status >= BAD_REQUEST
                /\ f = "userDelete" =>
                      /\ auths' = auths \ theAuth
                      /\ users' = users
                      /\ last'.res.status >= BAD_REQUEST
      ]_vars

\* a remove whose User delete failed left a User without its Auth
C16_Witness ==
    /\ last.op = "remove"
    /\ last.fault = "userDelete"
    /\ \E u \in users : \A a \in auths : a._id # u.auth

\* C17: a signInWithGoogle for a new googleId whose User create fails
\* leaves the new Auth stored without a User and answers with an error; a
\* signInWithGoogle for a googleId whose Auth has no User changes nothing in
\* the store (it creates no User) and, with both secrets configured, answers
\* OK with an access and a refresh token.
C17_GoogleOrphanAuth ==
    [][/\ \A g \in GoogleIds, e \in Emails, c \in Configs :
            (/\ last'.op = "signInWithGoogle"
             /\ last'.fault = "userCreate"
             /\ SignInWithGoogle(g, e, c, "userCreate")) =>
               /\ \E a \in auths' \ auths :
                     /\ a.googleId = g
                     /\ auths' = auths \cup {a}
                     /\ \A u \in users' : u.auth # a._id
               /\ users' = users
               /\ last'.res.status >= BAD_REQUEST
               /\ ~last'.res.accessToken
       /\ \A g \in GoogleIds, e \in Emails, c \in Configs :
            (/\ last'.op = "signInWithGoogle"
             /\ \E a \in auths :
                   a.googleId = g /\ \A u \in users : u.auth # a._id
             /\ SignInWithGoogle(g, e, c, "none")) =>
               /\ auths' = auths
               /\ users' = users
               /\ (c.JWT_ACCESS_SECRET /\ c.JWT_REFRESH_SECRET) =>
                     /\ last'.res.status = OK
                     /\ last'.res.accessToken
                     /\ last'.res.refreshToken
      ]_vars

\* a signInWithGoogle found an Auth without User and answered with tokens
C17_Witness ==
    /\ last.op = "signInWithGoogle"
    /\ last.res.status = OK
    /\ last.res.accessToken /\ last.res.refreshToken
    /\ users = {}
    /\ \E a \in auths : a.googleId # ""

\* C18: of two activate requests in flight for the same email with the same
\* OTP at most one gets an access token.
C18_OTPAcceptedOnce ==
    (/\ procs[1].email = procs[2].email
     /\ procs[1].otp = procs[2].otp) =>
       ~(procs[1].res.accessToken /\ procs[2].res.accessToken)

C20_ActivatePersistsFirst ==
    [][/\ \A e \in Emails, o \in OTPs :
            (/\ last'.op = "activate"
             /\ last'.otp = o
             /\ \E a \in auths :
                   /\ a.email = e /\ a.verificationOTP = o
                   /\ now <= a.verificationOTPExpiredAt
             /\ Activate(e, o, FALSE, "none")) =>
               /\ last'.res.status = INTERNAL_SERVER_ERROR
               /\ ~last'.res.accessToken
               /\ \A b \in auths' :
                     b.email = e =>
                        /\ b.isVerified
                        /\ b.verificationOTP = ""
                        /\ b.verificationOTPExpiredAt = Null
       /\ \A e \in Emails, o \in OTPs, s \in BOOLEAN :
            (/\ last.op = "activate"
             /\ last.res.status = INTERNAL_SERVER_ERROR
             /\ last.otp = o
             /\ last'.op = "activate"
             /\ Activate(e, o, s, "none")) =>
               /\ last'.res.status = UNAUTHORIZED
               /\ ~last'.res.accessToken
               /\ auths' = auths
      ]_vars

\* an activate without the secret answered 500 and left the account
\* verified with the OTP cleared
C20_Witness ==
    /\ last.op = "activate"
    /\ last.res.status = INTERNAL_SERVER_ERROR
    /\ last.res.message = "Unexpected Server Error"
    /\ \E a \in auths :
          /\ a.isVerified
          /\ a.verificationOTP = ""
          /\ used[a._id].verificationOTP = last.otp

=============================================================================
